---- MODULE Spec2Model ----
(***************************************************************************)
(* Model of src/zappadock/zappadock.py: the zappadock command.  One        *)
(* invocation of the command is a process that walks through the body of   *)
(* zappadock(); the container engine (running containers, local images)    *)
(* and the descriptor file of each project directory are shared state.     *)
(* An invocation takes one step per engine call or file operation, so that *)
(* invocations started from several shells interleave at those points.     *)
(***************************************************************************)
EXTENDS Integers, Sequences, FiniteSets, TLC

\* Number of times the command is started in a behaviour.
MaxStarts == 2

\* The shells the command is started from.
Inv == {"p", "q"}

\* Working directories (path components): two projects with one basename,
\* and a third with another.
AllDirs == {<<"home", "proj">>, <<"work", "proj">>, <<"home", "other">>}
Dirs == {<<"home", "proj">>, <<"work", "proj">>}

\* --image_source choices, line 36.
ImageSources == {"build", "pull", "pull_default"}

\* The command line without --image_source.
Omitted == "(omitted)"

\* What the command line may hold for --image_source.
ImageSourceArgs == ImageSources \cup {Omitted}

\* --platform choices, line 43; the option is not required (None).
NoPlatform == "None"
Platforms == {"linux/amd64", "linux/arm64", "linux/arm/v7", NoPlatform}

\* Line 89 and line 93: the hardcoded repository:tag.
DefaultRepository == "esc5221/zappadock-layer:python3.9-x86_64"

\* What the operator may type at the prompt of line 91.
RepoInputs == {DefaultRepository, "myrepo:tag1"}

\* platform.python_version() of the host interpreter: major, minor, patch.
PythonVersions ==
    {<<3, 6, 9>>, <<3, 7, 4>>, <<3, 8, 10>>, <<3, 9, 1>>, <<3, 10, 4>>}

\* platform.machine() of the host.
Machines == {"x86_64", "aarch64", "ARM64"}

\* Outcome of reaching the engine for one call.
EngineStatus == {"ok", "unreachable", "permission"}

\* Exit statuses of a session, as os.system would report them: all of them,
\* and the status of a session that ended well.
SessionStatuses == {0, 1}
CleanStatus == {0}

\* The local image stores the engine may hold when the first command starts.
\* A repository:tag names at most one image of a store.
ImageStores ==
    { <<>>,
      <<[id |-> "img_a", tags |-> {DefaultRepository}],
        [id |-> "img_b", tags |-> {"other:latest"}],
        [id |-> "img_c", tags |-> {"myrepo:tag1", "myrepo:stable"}],
        [id |-> "img_d", tags |-> {}]>> }

\* os.environ of the host: the variables that are set, with their values.
EnvOf(names) ==
    [n \in names |->
        IF n = "AWS_ACCESS_KEY_ID" THEN "AKIAEXAMPLE"
        ELSE IF n = "AWS_SECRET_ACCESS_KEY" THEN "wJalrXUtnFEMI"
        ELSE IF n = "AWS_DEFAULT_REGION" THEN "eu-west-1"
        ELSE IF n = "AWS_PROFILE" THEN "dev"
        ELSE IF n = "AWS_SESSION_TOKEN" THEN "token"
        ELSE "/root"]

Environments ==
    { EnvOf({}),
      EnvOf({"HOME"}),
      EnvOf({"AWS_PROFILE", "HOME"}),
      EnvOf({"AWS_ACCESS_KEY_ID", "AWS_SECRET_ACCESS_KEY", "HOME"}),
      EnvOf({"AWS_ACCESS_KEY_ID", "AWS_SECRET_ACCESS_KEY", "AWS_DEFAULT_REGION",
             "AWS_PROFILE", "AWS_SESSION_TOKEN", "HOME"}),
      [EnvOf({"AWS_DEFAULT_REGION", "HOME"}) EXCEPT !["AWS_DEFAULT_REGION"] = ""] }

\* A host: its environment, and whether ~/.aws is a directory.
Hosts == [environ : Environments, aws_dir : BOOLEAN]

\* The host of an operator with a configured profile.
DefaultHost == [environ |-> EnvOf({"AWS_PROFILE", "HOME"}), aws_dir |-> TRUE]

VARIABLES
    pc,                 \* position of each invocation in zappadock()
    cwd,                \* os.getcwd()
    argv,               \* --image_source as the command line holds it
    image_source,       \* option --image_source
    platform,           \* option --platform
    repository_name,    \* line 88-98
    python_version,     \* line 136
    machine,            \* line 146
    docker_image,       \* the local variable docker_image
    docker_run_command, \* lines 107-110, 223-225
    requests,           \* engine requests, file writes and prompts in order
    echoed,             \* messages shown by the invocation
    outcome,            \* how the invocation ended
    engine_error,       \* the engine failure the invocation met first
    session_status,     \* exit status of the session the invocation waited for
    files,              \* the descriptor file of each directory
    containers,         \* running containers of the engine
    images,             \* local images of the engine
    starts,             \* number of invocations started
    environ,            \* os.environ of the host
    aws_dir             \* os.path.isdir(os.path.expanduser("~/.aws"))

vars == <<pc, cwd, argv, image_source, platform, repository_name,
          python_version, machine, docker_image, docker_run_command, requests, echoed,
          outcome, engine_error, session_status, files, containers, images, starts,
          environ, aws_dir>>

\* The host does not change while commands run.
host == <<environ, aws_dir>>

locals == <<cwd, argv, image_source, platform, repository_name,
            python_version, machine, docker_image, docker_run_command>>

\* ------------------------------------------------------------------------
\* Pure parts of zappadock()

\* Line 57: os.path.basename(os.getcwd()).
Basename(dir) == dir[Len(dir)]

DetectName_OneProject(project_name) == <<"zappadock-layer-", "proj">>

DetectName_OtherPrefix(project_name) == <<"zappadock-", project_name>>

\* Line 63: the name a running container is compared with.
DetectName(project_name) == <<"zappadock-layer-", project_name>>

RunName_Unnamed(project_name) == <<>>

\* Line 108: the name given to docker run.
RunName(project_name) == <<"zappadock-layer-", project_name>>

OptionValue_DefaultBuild(arg) == IF arg = Omitted THEN "build" ELSE arg

\* Lines 33-39: click gives the option its default when it is omitted.
OptionValue(arg) == IF arg = Omitted THEN "pull_default" ELSE arg

\* Lines 69-84: the choice an image source stands for.  click.Choice admits
\* only the three sources, so the prompt of lines 74-84 is never taken.
image_source_choice(src) ==
    IF src = "build" THEN "1"
    ELSE IF src \in {"pull", "pull_default"} THEN "2"
    ELSE "prompt"

\* Line 98.
NoRepository == "None"

\* Lines 87-98: the repository:tag; typed is the operator's answer to the
\* prompt of line 91, asked only for the source "pull".
RepositoryName(src, typed) ==
    IF image_source_choice(src) = "2"
    THEN IF src = "pull_default" THEN DefaultRepository ELSE typed
    ELSE NoRepository

\* Line 91 prompts exactly when the source is "pull".
Prompts(src) == image_source_choice(src) = "2" /\ src # "pull_default"

\* Line 136: ".".join(platform.python_version().split(".")[:2]).
MajorMinor(version) == SubSeq(version, 1, 2)

\* Line 139.
SupportedVersions == {<<3, 6>>, <<3, 7>>, <<3, 8>>, <<3, 9>>}

\* Line 146: platform.machine().lower().
Lower(m) == IF m = "ARM64" THEN "arm64" ELSE m

\* Lines 146-151.
ArmUnsupported(m, pv) ==
    /\ Lower(m) \in {"aarch64", "arm64", "armv7l", "armv8l"}
    /\ pv \in {<<3, 6>>, <<3, 7>>}

BaseImage_Swapped(pv) ==
    IF pv \in {<<3, 6>>, <<3, 7>>}
    THEN [family |-> "mlupin/docker-lambda:python{}-build", version |-> pv]
    ELSE [family |-> "lambci/lambda:build-python{}", version |-> pv]

\* Lines 158-161: the base image of a supported version.
BaseImage(pv) ==
    IF pv \in {<<3, 8>>, <<3, 9>>}
    THEN [family |-> "mlupin/docker-lambda:python{}-build", version |-> pv]
    ELSE [family |-> "lambci/lambda:build-python{}", version |-> pv]

\* Lines 10-24 and 164: DOCKERFILE.format(base_image=image).  The text after
\* the FROM line is fixed, so a complete recipe is told by its base image.
Dockerfile(image) == <<image>>

\* A file that does not exist, and one opened for writing and not written.
NoFile == [exists |-> FALSE, content |-> <<>>]
EmptyFile == [exists |-> TRUE, content |-> <<>>]

\* docker_image before any assignment: the function never initialises it.
Unbound == [kind |-> "unbound", ids |-> <<>>]

SearchImages_AnyTag(list, repo, found) ==
    IF list = <<>> THEN found
    ELSE [kind |-> "image", ids |-> <<list[Len(list)].id>>]

\* Lines 206-211: the scan of docker_client.images.list().  The break of
\* line 211 leaves the inner loop only, so a later image with the tag
\* replaces an earlier one.
RECURSIVE SearchImages(_, _, _)
SearchImages(list, repo, found) ==
    IF list = <<>> THEN found
    ELSE SearchImages(Tail(list), repo,
                      IF repo \in Head(list).tags
                      THEN [kind |-> "image", ids |-> <<Head(list).id>>]
                      ELSE found)

Normalize_Last(img) ==
    IF img.kind = "list"
    THEN [kind |-> "image", ids |-> <<img.ids[Len(img.ids)]>>]
    ELSE img

\* Lines 219-220: a list is replaced by its first element.
Normalize(img) ==
    IF img.kind = "list" THEN [kind |-> "image", ids |-> <<Head(img.ids)>>]
    ELSE img

\* An engine request as the invocation issues it.
Request(op, name, ref, plat, image, descriptor) ==
    [op |-> op, name |-> name, ref |-> ref, platform |-> plat,
     image |-> image, descriptor |-> descriptor]

NoName == <<>>

InitialRunCommand_NoPlatform(project_name) ==
    [name |-> RunName(project_name), platform |-> "",
     mounts |-> <<>>, env |-> <<>>, ports |-> <<>>, image |-> ""]

\* Line 107-110: the run command as it is first put together.
InitialRunCommand(project_name) ==
    [name |-> RunName(project_name), platform |-> "linux/amd64",
     mounts |-> <<>>, env |-> <<>>, ports |-> <<>>, image |-> ""]

\* Line 114: -v ~/.aws/:/root/.aws.
AwsBind == [host |-> <<"~", ".aws">>, container |-> "/root/.aws"]

MountArgs_Always(isdir) == <<AwsBind>>

\* Lines 112-114: the credentials directory is mounted when it exists.
MountArgs(isdir) == IF isdir THEN <<AwsBind>> ELSE <<>>

\* Lines 117-122: the variables looked for, in the order of the loop.
EnvNames ==
    <<"AWS_ACCESS_KEY_ID", "AWS_SECRET_ACCESS_KEY", "AWS_DEFAULT_REGION",
      "AWS_PROFILE">>

RECURSIVE EnvArgs_Defaulted(_, _)
EnvArgs_Defaulted(names, env) ==
    IF names = <<>> THEN <<>>
    ELSE <<[name |-> Head(names),
            value |-> IF Head(names) \in DOMAIN env
                      THEN env[Head(names)] ELSE ""]>>
         \o EnvArgs_Defaulted(Tail(names), env)

\* Lines 116-124: -e name=value for each looked-for variable that is set.
RECURSIVE EnvArgs(_, _)
EnvArgs(names, env) ==
    IF names = <<>> THEN <<>>
    ELSE (IF Head(names) \in DOMAIN env
          THEN <<[name |-> Head(names), value |-> env[Head(names)]]>>
          ELSE <<>>)
         \o EnvArgs(Tail(names), env)

CompleteRunCommand_ByTag(cmd, dir, id) ==
    [cmd EXCEPT !.mounts = @ \o <<[host |-> dir, container |-> "/var/task"]>>,
                !.ports = <<[host |-> 8000, container |-> 8000]>>,
                !.image = "zappadock-layer"]

\* Lines 222-225: the bind of the working directory, the port and the image
\* id are appended.
CompleteRunCommand(cmd, dir, id) ==
    [cmd EXCEPT !.mounts = @ \o <<[host |-> dir, container |-> "/var/task"]>>,
                !.ports = <<[host |-> 8000, container |-> 8000]>>,
                !.image = id]

\* Of an invocation that is not running, and of options not yet read.
NoDir == <<>>
NoOption == ""

\* The run command before line 107.
NoCommand ==
    [name |-> NoName, platform |-> "", mounts |-> <<>>, env |-> <<>>,
     ports |-> <<>>, image |-> ""]

AfterDetectFailure_NotFound == "select"
AfterBuildFailure_Fallback == "pull_list"

\* Lines 60-62: no handler, the exception ends the process.
AfterDetectFailure == "done"

\* Lines 196-201: the handler of a failed build ends with exit().
AfterBuildFailure == "done"

\* The exit code of the process: exit(0) at line 66, exit() at lines 142,
\* 151, 184 and 201 and the return of line 236 give 0, whatever os.system
\* returned; an exception that nothing catches gives 1.
ExitCode(how) ==
    IF how \in {"detect_exception", "list_images_exception",
                "unbound_local_error", "pull_failed", "attribute_error"}
    THEN 1
    ELSE 0

\* ------------------------------------------------------------------------
\* Engine

\* The engine refuses a second container with a name in use.
NameInUse(name) == \E c \in containers : c.name = name

\* docker build -t zappadock-layer: the tag moves to the built image.
BuiltId == "img_built"
BuiltTag == "zappadock-layer:latest"

RECURSIVE Untag(_, _)
Untag(list, tag) ==
    IF list = <<>> THEN <<>>
    ELSE <<[Head(list) EXCEPT !.tags = @ \ {tag}]>> \o Untag(Tail(list), tag)

RECURSIVE WithoutId(_, _)
WithoutId(list, id) ==
    IF list = <<>> THEN <<>>
    ELSE (IF Head(list).id = id THEN <<>> ELSE <<Head(list)>>)
         \o WithoutId(Tail(list), id)

StoreAfter(list, id, tag) ==
    Append(WithoutId(Untag(list, tag), id), [id |-> id, tags |-> {tag}])

\* ------------------------------------------------------------------------
\* State

InitWith(hosts) ==
    /\ pc = [i \in Inv |-> "idle"]
    /\ cwd = [i \in Inv |-> NoDir]
    /\ argv = [i \in Inv |-> NoOption]
    /\ image_source = [i \in Inv |-> NoOption]
    /\ platform = [i \in Inv |-> NoOption]
    /\ repository_name = [i \in Inv |-> NoRepository]
    /\ python_version = [i \in Inv |-> <<>>]
    /\ machine = [i \in Inv |-> ""]
    /\ docker_image = [i \in Inv |-> Unbound]
    /\ docker_run_command = [i \in Inv |-> NoCommand]
    /\ requests = [i \in Inv |-> <<>>]
    /\ echoed = [i \in Inv |-> {}]
    /\ outcome = [i \in Inv |-> "none"]
    /\ engine_error = [i \in Inv |-> "none"]
    /\ session_status = [i \in Inv |-> <<>>]
    /\ files = [d \in AllDirs |-> NoFile]
    /\ containers = {}
    /\ images \in ImageStores
    /\ starts = 0
    /\ \E h \in hosts : environ = h.environ /\ aws_dir = h.aws_dir

Init == InitWith({DefaultHost})

Finish(i, how) ==
    /\ pc' = [pc EXCEPT ![i] = "done"]
    /\ outcome' = [outcome EXCEPT ![i] = how]

Issue(i, reqs) == requests' = [requests EXCEPT ![i] = @ \o reqs]

Echo(i, msgs) == echoed' = [echoed EXCEPT ![i] = @ \cup msgs]

\* A process that has exited keeps nothing: when a command is started, the
\* variables of the invocations that have ended are forgotten.
Fresh(f, i, v, blank) ==
    [j \in Inv |-> IF j = i THEN v ELSE IF pc[j] = "done" THEN blank ELSE f[j]]

\* The command is started in a shell, in one of the directories dirs:
\* lines 47-57.
Start(i, dirs) ==
    /\ pc[i] \in {"idle", "done"}
    /\ starts < MaxStarts
    /\ starts' = starts + 1
    /\ \E dir \in dirs : cwd' = Fresh(cwd, i, dir, NoDir)
    /\ argv' = Fresh(argv, i, NoOption, NoOption)
    /\ image_source' = Fresh(image_source, i, NoOption, NoOption)
    /\ platform' = Fresh(platform, i, NoOption, NoOption)
    /\ docker_run_command' = Fresh(docker_run_command, i, NoCommand, NoCommand)
    /\ repository_name' = Fresh(repository_name, i, NoRepository, NoRepository)
    /\ python_version' = Fresh(python_version, i, <<>>, <<>>)
    /\ machine' = Fresh(machine, i, "", "")
    /\ docker_image' = Fresh(docker_image, i, Unbound, Unbound)
    /\ requests' = Fresh(requests, i, <<>>, <<>>)
    /\ echoed' = Fresh(echoed, i, {}, {})
    /\ outcome' = Fresh(outcome, i, "none", "none")
    /\ engine_error' = Fresh(engine_error, i, "none", "none")
    /\ session_status' = Fresh(session_status, i, <<>>, <<>>)
    /\ pc' = Fresh(pc, i, "detect", "idle")
    /\ UNCHANGED <<host, files, containers, images>>

\* Lines 59-66: session detection.  docker.from_env() and containers.list()
\* are outside any try: a DockerException ends the process with a traceback.
Detect(i) ==
    /\ pc[i] = "detect"
    /\ \E st \in EngineStatus :
          LET name == DetectName(Basename(cwd[i]))
              listing == Request("list_containers", NoName, "", "", "", <<>>)
          IN  IF st # "ok"
              THEN /\ pc' = [pc EXCEPT ![i] = AfterDetectFailure]
                   /\ outcome' = [outcome EXCEPT ![i] = "detect_exception"]
                   /\ engine_error' = [engine_error EXCEPT ![i] = st]
                   /\ Issue(i, <<listing>>)
                   /\ UNCHANGED echoed
              ELSE IF \E c \in containers : c.name = name
              THEN /\ pc' = [pc EXCEPT ![i] = "in_attach"]
                   /\ Issue(i, <<listing, Request("attach", name, "", "", "", <<>>)>>)
                   /\ Echo(i, {"Attaching to existing container."})
                   /\ UNCHANGED <<outcome, engine_error>>
              ELSE /\ pc' = [pc EXCEPT ![i] = "select"]
                   /\ Issue(i, <<listing>>)
                   /\ UNCHANGED <<echoed, outcome, engine_error>>
    /\ UNCHANGED <<host, session_status, locals, files, containers, images,
                   starts>>

\* Lines 65-66: docker attach returns (the session ended or the operator
\* detached) and the process exits with status 0.
AttachReturn(i, statuses) ==
    /\ pc[i] = "in_attach"
    /\ Finish(i, "attached")
    /\ \E st \in statuses :
          session_status' = [session_status EXCEPT ![i] = <<st>>]
    /\ UNCHANGED <<host, locals, requests, echoed, engine_error, files,
                   containers, images, starts>>

\* Lines 68-124: the options are read (image_source first at line 69,
\* platform at line 104), the repository name is fixed, the summary shown
\* and the first part of the run command put together.
Select(i, args, plats) ==
    /\ pc[i] = "select"
    /\ \E arg \in args, plat \in plats :
          LET src == OptionValue(arg)
          IN  /\ argv' = [argv EXCEPT ![i] = arg]
              /\ image_source' = [image_source EXCEPT ![i] = src]
              /\ platform' = [platform EXCEPT ![i] = plat]
              /\ \E typed \in (IF Prompts(src) THEN RepoInputs
                                ELSE {DefaultRepository}) :
                    /\ repository_name' =
                          [repository_name EXCEPT ![i] =
                              RepositoryName(src, typed)]
                    /\ IF Prompts(src)
                       THEN Issue(i, <<Request("prompt", NoName, typed, "",
                                               "", <<>>)>>)
                       ELSE UNCHANGED requests
              /\ Echo(i, {"Summary of docker image"}
                         \cup (IF Prompts(src)
                               THEN {"Enter repository name and tag"} ELSE {}))
              /\ pc' = [pc EXCEPT ![i] =
                           IF image_source_choice(src) = "1"
                           THEN "build_isfile" ELSE "pull_list"]
    /\ docker_run_command' =
          [docker_run_command EXCEPT ![i] =
              [InitialRunCommand(Basename(cwd[i])) EXCEPT
                  !.mounts = MountArgs(aws_dir),
                  !.env = EnvArgs(EnvNames, environ)]]
    /\ UNCHANGED <<host, session_status, cwd, python_version, machine,
                   docker_image, outcome, engine_error, files, containers,
                   images, starts>>

IsFile_Never(dir) == FALSE

\* Line 131: os.path.isfile(docker_file).
IsFile(dir) == files[dir].exists

\* Lines 129-132: the Build path looks for the descriptor file.
BuildIsFile(i) ==
    /\ pc[i] = "build_isfile"
    /\ IF IsFile(cwd[i])
       THEN /\ pc' = [pc EXCEPT ![i] = "build_client"]
            /\ UNCHANGED echoed
       ELSE /\ pc' = [pc EXCEPT ![i] = "build_open"]
            /\ Echo(i, {"Creating Dockerfile."})
    /\ UNCHANGED <<host, session_status, locals, requests, outcome,
                   engine_error, files, containers, images, starts>>

\* Lines 133-161: open(docker_file, "w") creates the file, or empties it,
\* before the version and the architecture are looked at; exit() inside the
\* with block closes the file as it is.
BuildOpen(i, versions, machines) ==
    /\ pc[i] = "build_open"
    /\ files' = [files EXCEPT ![cwd[i]] = EmptyFile]
    /\ Issue(i, <<Request("open_w", NoName, "", "", "", <<>>)>>)
    /\ \E version \in versions, m \in machines :
          LET pv == MajorMinor(version)
          IN  /\ python_version' = [python_version EXCEPT ![i] = pv]
              /\ machine' = [machine EXCEPT ![i] = m]
              /\ IF pv \notin SupportedVersions
                 THEN /\ Finish(i, "unsupported_version")
                      /\ Echo(i, {"Python version is not supported."})
                 ELSE IF ArmUnsupported(m, pv)
                 THEN /\ Finish(i, "unsupported_arch")
                      /\ Echo(i, {"AWS Lambda does not support Python 3.6 or 3.7 on ARM64."})
                 ELSE /\ pc' = [pc EXCEPT ![i] = "build_write"]
                      /\ UNCHANGED <<echoed, outcome>>
    /\ UNCHANGED <<host, session_status, cwd, argv, image_source, platform,
                   repository_name, docker_image, docker_run_command,
                   engine_error, containers, images, starts>>

\* Line 164 and the end of the with block: the recipe reaches the file.
\* python_version and the machine are not read after this point.
BuildWrite(i) ==
    /\ pc[i] = "build_write"
    /\ files' = [files EXCEPT ![cwd[i]] =
                    [exists |-> TRUE,
                     content |-> Dockerfile(BaseImage(python_version[i]))]]
    /\ Issue(i, <<Request("write", NoName, "", "", "",
                          Dockerfile(BaseImage(python_version[i])))>>)
    /\ python_version' = [python_version EXCEPT ![i] = <<>>]
    /\ machine' = [machine EXCEPT ![i] = ""]
    /\ pc' = [pc EXCEPT ![i] = "build_client"]
    /\ UNCHANGED <<host, session_status, cwd, argv, image_source, platform,
                   repository_name, docker_image, docker_run_command, echoed,
                   outcome, engine_error, containers, images, starts>>

\* Lines 173-182: the hint shown for a DockerException of docker.from_env().
Hint(st) ==
    IF st = "permission"
    THEN "Your user is not in the docker group."
    ELSE "Docker failed to load."

\* Lines 166-184: the second docker.from_env(), the only engine call whose
\* DockerException is answered with a hint.
BuildClient(i) ==
    /\ pc[i] = "build_client"
    /\ \E st \in EngineStatus :
          IF st = "ok"
          THEN /\ pc' = [pc EXCEPT ![i] = "build_image"]
               /\ Echo(i, {"Creating Docker client."})
               /\ UNCHANGED <<outcome, engine_error>>
          ELSE /\ Finish(i, "engine_hint")
               /\ engine_error' = [engine_error EXCEPT ![i] = st]
               /\ Echo(i, {"Creating Docker client.", Hint(st), "Exiting..."})
    /\ UNCHANGED <<host, session_status, locals, requests, files, containers,
                   images, starts>>

\* Lines 186-201: the file is opened for reading and handed to
\* client.images.build.  The engine refuses an empty recipe.  docker-py
\* returns the image (before 3.0) or the pair (image, logs).
BuildImage(i) ==
    /\ pc[i] = "build_image"
    /\ \E st \in EngineStatus, built \in BOOLEAN, shape \in {"image", "tuple"} :
          LET descriptor == files[cwd[i]].content
              req == Request("build", NoName, BuiltTag, platform[i], "", descriptor)
          IN  /\ Issue(i, <<req>>)
              /\ IF st = "ok" /\ built /\ descriptor # <<>>
                 THEN /\ docker_image' =
                            [docker_image EXCEPT ![i] =
                                [kind |-> shape, ids |-> <<BuiltId>>]]
                      /\ images' = StoreAfter(images, BuiltId, BuiltTag)
                      /\ pc' = [pc EXCEPT ![i] = "launch"]
                      /\ Echo(i, {"Building Docker Image."})
                      /\ UNCHANGED <<outcome, engine_error>>
                 ELSE /\ pc' = [pc EXCEPT ![i] = AfterBuildFailure]
                      /\ outcome' = [outcome EXCEPT ![i] = "build_failed"]
                      /\ engine_error' =
                            [engine_error EXCEPT ![i] =
                                IF st = "ok" THEN @ ELSE st]
                      /\ Echo(i, {"Building Docker Image.",
                                  "Docker failed to build.", "Exiting..."})
                      /\ UNCHANGED <<docker_image, images>>
    /\ UNCHANGED <<host, session_status, cwd, argv, image_source, platform,
                   repository_name, python_version, machine,
                   docker_run_command, files, containers, starts>>

\* Lines 204-211: the pull path lists the local images and looks for the
\* requested tag; a DockerException of images.list() is not caught.
PullList(i) ==
    /\ pc[i] = "pull_list"
    /\ Issue(i, <<Request("list_images", NoName, "", "", "", <<>>)>>)
    /\ \E st \in EngineStatus :
          IF st = "ok"
          THEN LET found == SearchImages(images, repository_name[i], docker_image[i])
               IN  /\ docker_image' = [docker_image EXCEPT ![i] = found]
                   /\ IF found.kind = "image"
                      THEN Echo(i, {"Using existing image..."})
                      ELSE UNCHANGED echoed
                   /\ pc' = [pc EXCEPT ![i] = "pull_check"]
                   /\ UNCHANGED <<outcome, engine_error>>
          ELSE /\ Finish(i, "list_images_exception")
               /\ engine_error' = [engine_error EXCEPT ![i] = st]
               /\ UNCHANGED <<docker_image, echoed>>
    /\ UNCHANGED <<host, session_status, cwd, argv, image_source, platform,
                   repository_name, python_version, machine,
                   docker_run_command, files, containers, images, starts>>

\* Lines 212-217: docker_image is read.  With no local image found it was
\* never assigned and the read raises UnboundLocalError; the pull is issued
\* only for a docker_image that is None.  images.pull returns an image or a
\* list of images, and its DockerException is not caught.
PullCheck(i) ==
    /\ pc[i] = "pull_check"
    /\ \E st \in EngineStatus, pulled \in BOOLEAN, shape \in {"image", "list"} :
          IF docker_image[i].kind = "unbound"
          THEN /\ Finish(i, "unbound_local_error")
               /\ Echo(i, {"UnboundLocalError"})
               /\ UNCHANGED <<docker_image, requests, engine_error, images>>
          ELSE IF docker_image[i].kind = "none"
          THEN /\ Issue(i, <<Request("pull", NoName, repository_name[i],
                                     platform[i], "", <<>>)>>)
               /\ Echo(i, {"Pulling from Docker Hub..."})
               /\ IF st = "ok" /\ pulled
                  THEN /\ docker_image' =
                             [docker_image EXCEPT ![i] =
                                 [kind |-> shape, ids |-> <<"img_pulled">>]]
                       /\ images' = StoreAfter(images, "img_pulled", repository_name[i])
                       /\ pc' = [pc EXCEPT ![i] = "launch"]
                       /\ UNCHANGED <<outcome, engine_error>>
                  ELSE /\ Finish(i, "pull_failed")
                       /\ engine_error' =
                             [engine_error EXCEPT ![i] = IF st = "ok" THEN @ ELSE st]
                       /\ UNCHANGED <<docker_image, images>>
          ELSE /\ pc' = [pc EXCEPT ![i] = "launch"]
               /\ UNCHANGED <<docker_image, requests, echoed, outcome,
                              engine_error, images>>
    /\ UNCHANGED <<host, session_status, cwd, argv, image_source, platform,
                   repository_name, python_version, machine,
                   docker_run_command, files, containers, starts>>

\* Lines 219-236: the image is normalised, the run command completed, shown
\* and handed to os.system, whose status is dropped.  A pair has no id:
\* AttributeError.  The engine starts no container under a name in use.
Launch(i) ==
    /\ pc[i] = "launch"
    /\ LET img == Normalize(docker_image[i])
       IN  IF img.kind # "image"
           THEN /\ Finish(i, "attribute_error")
                /\ Echo(i, {"AttributeError"})
                /\ UNCHANGED <<docker_image, docker_run_command, requests,
                               containers, engine_error>>
           ELSE LET cmd == CompleteRunCommand(docker_run_command[i], cwd[i],
                                              img.ids[1])
                IN  /\ docker_image' = [docker_image EXCEPT ![i] = img]
                    /\ docker_run_command' = [docker_run_command EXCEPT ![i] = cmd]
                    /\ Issue(i, <<Request("run", cmd.name, "", cmd.platform,
                                          cmd.image, <<>>)>>)
                    /\ Echo(i, {"Docker Command :", "Starting ZappaDock..."})
                    /\ \E st \in EngineStatus :
                          IF st = "ok" /\ ~NameInUse(cmd.name)
                          THEN /\ containers' = containers \cup
                                     {[name |-> IF cmd.name = NoName
                                                THEN <<"generated", i>>
                                                ELSE cmd.name,
                                       started_by |-> i]}
                               /\ pc' = [pc EXCEPT ![i] = "in_run"]
                               /\ UNCHANGED <<outcome, engine_error>>
                          ELSE /\ Finish(i, "run_failed")
                               /\ engine_error' =
                                     [engine_error EXCEPT ![i] =
                                         IF st = "ok" THEN @ ELSE st]
                               /\ UNCHANGED containers
    /\ UNCHANGED <<host, session_status, cwd, argv, image_source, platform,
                   repository_name, python_version, machine, files, images,
                   starts>>

\* Line 236 returns: the session ended, --rm removed its container, and the
\* function returns.
RunReturn(i, statuses) ==
    /\ pc[i] = "in_run"
    /\ containers' = {c \in containers : c.started_by # i}
    /\ Finish(i, "returned")
    /\ \E st \in statuses :
          session_status' = [session_status EXCEPT ![i] = <<st>>]
    /\ UNCHANGED <<host, locals, requests, echoed, engine_error, files,
                   images, starts>>

\* The tool is a foreground command of one operator: a command is started
\* when no other one is between its start and its session.
Quiet == \A j \in Inv : pc[j] \in {"idle", "done", "in_run", "in_attach"}

Next ==
    \E i \in Inv :
        \/ Quiet /\ Start(i, Dirs)
        \/ Detect(i)
        \/ AttachReturn(i, CleanStatus)
        \/ Select(i, ImageSourceArgs, Platforms)
        \/ BuildIsFile(i)
        \/ BuildOpen(i, PythonVersions, Machines)
        \/ BuildWrite(i)
        \/ BuildClient(i)
        \/ BuildImage(i)
        \/ PullList(i)
        \/ PullCheck(i)
        \/ Launch(i)
        \/ RunReturn(i, CleanStatus)

Spec == Init /\ [][Next]_vars

\* Commands started from several shells in one project directory, with no
\* order between their steps.
SharedDirs == {<<"home", "proj">>, <<"home", "other">>}
SharedPlatforms == {NoPlatform, "linux/arm64"}
SharedVersions == {<<3, 10, 4>>, <<3, 8, 10>>}
SharedMachines == {"x86_64"}

NextShared ==
    \E i \in Inv :
        \/ Start(i, SharedDirs)
        \/ Detect(i)
        \/ AttachReturn(i, SessionStatuses)
        \/ Select(i, ImageSources, SharedPlatforms)
        \/ BuildIsFile(i)
        \/ BuildOpen(i, SharedVersions, SharedMachines)
        \/ BuildWrite(i)
        \/ BuildClient(i)
        \/ BuildImage(i)
        \/ PullList(i)
        \/ PullCheck(i)
        \/ Launch(i)
        \/ RunReturn(i, SessionStatuses)

SpecShared == Init /\ [][NextShared]_vars

\* Commands started one after another on any of the hosts.
InitHost == InitWith(Hosts)

NextHost ==
    \E i \in Inv :
        \/ Quiet /\ Start(i, Dirs)
        \/ Detect(i)
        \/ AttachReturn(i, CleanStatus)
        \/ Select(i, ImageSources, SharedPlatforms)
        \/ BuildIsFile(i)
        \/ BuildOpen(i, SharedVersions, SharedMachines)
        \/ BuildWrite(i)
        \/ BuildClient(i)
        \/ BuildImage(i)
        \/ PullList(i)
        \/ PullCheck(i)
        \/ Launch(i)
        \/ RunReturn(i, CleanStatus)

SpecHost == InitHost /\ [][NextHost]_vars

\* What images.pull of line 215 may return: an image, or a list of images.
PullResults ==
    { [kind |-> "image", ids |-> <<"img_pulled">>],
      [kind |-> "list", ids |-> <<"img_pulled">>],
      [kind |-> "list", ids |-> <<"img_tag1", "img_tag2">>],
      [kind |-> "list", ids |-> <<"img_tag2", "img_tag1">>] }

\* Lines 219-236 on their own: one command stands at line 219 with the
\* result of a pull in docker_image.
InitNormalize ==
    /\ pc = [i \in Inv |-> IF i = "p" THEN "launch" ELSE "idle"]
    /\ \E dir \in AllDirs, plat \in Platforms, typed \in RepoInputs,
          result \in PullResults :
          /\ cwd = [i \in Inv |-> IF i = "p" THEN dir ELSE NoDir]
          /\ platform = [i \in Inv |-> IF i = "p" THEN plat ELSE NoOption]
          /\ repository_name =
                [i \in Inv |-> IF i = "p" THEN RepositoryName("pull", typed)
                               ELSE NoRepository]
          /\ docker_image = [i \in Inv |-> IF i = "p" THEN result ELSE Unbound]
          /\ docker_run_command =
                [i \in Inv |->
                    IF i = "p"
                    THEN [InitialRunCommand(Basename(dir)) EXCEPT
                             !.mounts = MountArgs(DefaultHost.aws_dir),
                             !.env = EnvArgs(EnvNames, DefaultHost.environ)]
                    ELSE NoCommand]
          /\ requests =
                [i \in Inv |->
                    IF i = "p"
                    THEN <<Request("list_containers", NoName, "", "", "", <<>>),
                           Request("prompt", NoName, typed, "", "", <<>>),
                           Request("list_images", NoName, "", "", "", <<>>),
                           Request("pull", NoName, typed, plat, "", <<>>)>>
                    ELSE <<>>]
    /\ argv = [i \in Inv |-> IF i = "p" THEN "pull" ELSE NoOption]
    /\ image_source = [i \in Inv |-> IF i = "p" THEN "pull" ELSE NoOption]
    /\ python_version = [i \in Inv |-> <<>>]
    /\ machine = [i \in Inv |-> ""]
    /\ echoed = [i \in Inv |->
                    IF i = "p"
                    THEN {"Summary of docker image",
                          "Enter repository name and tag",
                          "Pulling from Docker Hub..."}
                    ELSE {}]
    /\ outcome = [i \in Inv |-> "none"]
    /\ engine_error = [i \in Inv |-> "none"]
    /\ session_status = [i \in Inv |-> <<>>]
    /\ files = [d \in AllDirs |-> NoFile]
    /\ containers = {}
    /\ images = <<>>
    /\ starts = MaxStarts
    /\ environ = DefaultHost.environ
    /\ aws_dir = DefaultHost.aws_dir

NextNormalize ==
    \E i \in Inv :
        \/ Launch(i)
        \/ RunReturn(i, SessionStatuses)

SpecNormalize == InitNormalize /\ [][NextNormalize]_vars

\* ------------------------------------------------------------------------
\* Properties

\* The container name of a project directory, as the specification gives it.
ProjectContainerName(dir) == <<"zappadock-layer-", dir[Len(dir)]>>

HasOp(i, op) == \E k \in 1..Len(requests[i]) : requests[i][k].op = op

CountOp(i, op) == Cardinality({k \in 1..Len(requests[i]) : requests[i][k].op = op})

Ops(reqs) == [k \in 1..Len(reqs) |-> reqs[k].op]

OnPullPath(i) == image_source[i] \in {"pull", "pull_default"}

\* The local images that carry a tag.
RECURSIVE LocalWithTag(_, _)
LocalWithTag(list, tag) ==
    IF list = <<>> THEN {}
    ELSE (IF tag \in Head(list).tags THEN {Head(list).id} ELSE {})
         \cup LocalWithTag(Tail(list), tag)

\* C1: an invocation whose listing of running sessions holds a session with
\* the project's container name attaches to that session, and an invocation
\* that attached has issued the listing and the attach and nothing else: no
\* descriptor file, no image listing, no build, no pull, no run.
C1_ReattachShortCircuit ==
    [][\A i \in Inv :
         /\ ( /\ pc[i] = "detect"
              /\ pc'[i] # "detect"
              /\ engine_error'[i] = "none"
              /\ \E c \in containers : c.name = ProjectContainerName(cwd[i]) )
            => pc'[i] = "in_attach"
         /\ (pc'[i] = "in_attach" \/ outcome'[i] = "attached")
            => /\ Ops(requests'[i]) = <<"list_containers", "attach">>
               /\ requests'[i][2].name = ProjectContainerName(cwd'[i])
               /\ pc'[i] \in {"in_attach", "done"}
      ]_vars

\* C1 witness: an invocation attached to the session another invocation
\* started from another directory with the same basename, and ended.
C1_Witness ==
    \E i, j \in Inv :
        /\ pc[i] = "done" /\ outcome[i] = "attached"
        /\ pc[j] = "in_run" /\ cwd[j] # cwd[i]

\* C2: a Build invocation that found no descriptor and met an unsupported
\* version, or an ARM machine with 3.6 or 3.7, has aborted and the
\* descriptor file does not exist afterwards.
C2_BuildAbortLeavesNoDescriptor ==
    \A i \in Inv :
        ( /\ pc[i] = "done"
          /\ image_source[i] = "build"
          /\ python_version[i] # <<>>
          /\ \/ python_version[i] \notin {<<3, 6>>, <<3, 7>>, <<3, 8>>, <<3, 9>>}
             \/ /\ machine[i] \in {"aarch64", "arm64", "armv7l", "armv8l",
                                   "ARM64"}
                /\ python_version[i] \in {<<3, 6>>, <<3, 7>>} )
        => /\ outcome[i] \in {"unsupported_version", "unsupported_arch"}
           /\ ~files[cwd[i]].exists

\* C3: a pull invocation that listed the local images and found none with
\* the requested tag has issued a pull for that reference and platform.
C3_PullWhenNotCached ==
    \A i \in Inv :
        ( /\ OnPullPath(i)
          /\ pc[i] \in {"launch", "in_run", "done"}
          /\ outcome[i] # "list_images_exception"
          /\ LocalWithTag(images, repository_name[i]) = {} )
        => \E k \in 1..Len(requests[i]) :
              /\ requests[i][k].op = "pull"
              /\ requests[i][k].ref = repository_name[i]
              /\ requests[i][k].platform = platform[i]

\* C4: a pull invocation that listed the local images while one of them
\* carries the requested tag issues no pull, goes on to the launch, and the
\* image of its run request is that local image.
C4_PullReuse ==
    \A i \in Inv :
        ( /\ OnPullPath(i)
          /\ pc[i] \in {"pull_check", "launch", "in_run", "done"}
          /\ outcome[i] # "list_images_exception"
          /\ LocalWithTag(images, repository_name[i]) # {} )
        => /\ ~HasOp(i, "pull")
           /\ outcome[i] \notin {"unbound_local_error", "pull_failed"}
           /\ (pc[i] \in {"in_run", "done"} => HasOp(i, "run"))
           /\ \A k \in 1..Len(requests[i]) :
                 requests[i][k].op = "run"
                 => requests[i][k].image \in LocalWithTag(images, repository_name[i])

\* C4 witness: the operator asked for myrepo:tag1, which img_c carries, and
\* the session runs on img_c.
C4_Witness ==
    \E i \in Inv :
        /\ pc[i] = "in_run"
        /\ image_source[i] = "pull"
        /\ repository_name[i] = "myrepo:tag1"
        /\ docker_run_command[i].image = "img_c"
        /\ ~HasOp(i, "pull")

\* C5: no step of a Build invocation whose descriptor file exists when it
\* looks for it changes any descriptor file, takes the invocation to the
\* synthesis of the descriptor, or aborts it on the version or architecture.
C5_DescriptorWriteOnce ==
    [][\A i \in Inv :
         ( /\ image_source[i] = "build"
           /\ files[cwd[i]].exists
           /\ pc[i] \in {"build_isfile", "build_client", "build_image", "launch",
                         "in_run"}
           /\ pc'[i] # pc[i] )
         => /\ files' = files
            /\ pc'[i] \notin {"build_open", "build_write"}
            /\ outcome'[i] \notin {"unsupported_version", "unsupported_arch"}
      ]_vars

\* C5 witness: a Build invocation found the descriptor of an earlier one,
\* wrote nothing and runs its session.
C5_Witness ==
    \E i \in Inv :
        /\ pc[i] = "in_run"
        /\ image_source[i] = "build"
        /\ ~HasOp(i, "open_w")
        /\ files[cwd[i]].exists

C7_BuildPullFailureFatal ==
    \A i \in Inv :
        /\ outcome[i] = "build_failed"
           => /\ pc[i] = "done"
              /\ CountOp(i, "build") = 1
              /\ ~HasOp(i, "run") /\ ~HasOp(i, "pull") /\ ~HasOp(i, "list_images")
              /\ requests[i][Len(requests[i])].op = "build"
        /\ outcome[i] = "pull_failed"
           => /\ pc[i] = "done"
              /\ CountOp(i, "pull") = 1
              /\ ~HasOp(i, "run") /\ ~HasOp(i, "build")
              /\ requests[i][Len(requests[i])].op = "pull"

\* C7 witness: the engine was reached and reported the build as failed.
C7_Witness ==
    \E i \in Inv :
        /\ outcome[i] = "build_failed"
        /\ engine_error[i] = "none"
        /\ files[cwd[i]].content # <<>>

\* C8: an invocation that could not reach the engine for the listing of the
\* running sessions has ended, having issued that listing only and written
\* no descriptor.
C8_DetectionFailureFatal ==
    \A i \in Inv :
        outcome[i] = "detect_exception"
        => /\ pc[i] = "done"
           /\ engine_error[i] # "none"
           /\ Ops(requests[i]) = <<"list_containers">>
           /\ "Creating Dockerfile." \notin echoed[i]

\* C8 witness: the engine was unreachable at session detection.
C8_Witness ==
    \E i \in Inv :
        /\ outcome[i] = "detect_exception"
        /\ engine_error[i] = "unreachable"
        /\ pc[i] = "done"

\* C9: an invocation that met an unavailable engine has shown the hint for
\* it, the permission hint for a permission error and the not-running hint
\* otherwise, when it ends.
C9_EngineUnavailableHint ==
    \A i \in Inv :
        (pc[i] = "done" /\ engine_error[i] # "none")
        => IF engine_error[i] = "permission"
           THEN "Your user is not in the docker group." \in echoed[i]
           ELSE "Docker failed to load." \in echoed[i]

\* C10: a container name is held by at most one running session, and of the
\* invocations started in one project directory at most one is in a session
\* it started.
C10_OneSessionPerProject ==
    \A d \in AllDirs :
        /\ Cardinality({c \in containers : c.name = ProjectContainerName(d)}) <= 1
        /\ Cardinality({i \in Inv : pc[i] = "in_run" /\ cwd[i] = d}) <= 1

\* C10 witness: two invocations of one directory both found no session; one
\* started its session and the engine refused the run of the other.
C10_Witness ==
    \E i, j \in Inv :
        /\ i # j
        /\ cwd[i] = cwd[j]
        /\ pc[i] = "in_run"
        /\ pc[j] = "done" /\ outcome[j] = "run_failed" /\ engine_error[j] = "none"

\* The command handed to os.system, of an invocation that issued a run.
RunIssued(i) == HasOp(i, "run")

\* C11: for every host environment, the variables passed to the run request
\* are exactly the variables of the host environment among AWS_ACCESS_KEY_ID,
\* AWS_SECRET_ACCESS_KEY, AWS_DEFAULT_REGION and AWS_PROFILE, each once and
\* with the value it has on the host; a variable that is not set on the host
\* is not passed, and no other variable is passed.
C11_EnvPassthrough ==
    \A i \in Inv :
        RunIssued(i) =>
            LET env == docker_run_command[i].env
                passed == {env[k].name : k \in 1..Len(env)}
            IN  /\ passed = DOMAIN environ \cap
                               {"AWS_ACCESS_KEY_ID", "AWS_SECRET_ACCESS_KEY",
                                "AWS_DEFAULT_REGION", "AWS_PROFILE"}
                /\ Len(env) = Cardinality(passed)
                /\ \A k \in 1..Len(env) : env[k].value = environ[env[k].name]

\* A run on a host that sets AWS_PROFILE and HOME and no other variable.
C11_Witness ==
    \E i \in Inv :
        /\ RunIssued(i)
        /\ DOMAIN environ = {"AWS_PROFILE", "HOME"}
        /\ docker_run_command[i].env =
              <<[name |-> "AWS_PROFILE", value |-> environ["AWS_PROFILE"]]>>

\* C12: every run request binds the working directory of the invocation to
\* /var/task exactly once, binds the credentials directory to /root/.aws
\* exactly when ~/.aws is a directory of the host, and has no other mount.
C12_MountAssembly ==
    \A i \in Inv :
        RunIssued(i) =>
            LET m == docker_run_command[i].mounts
                task == {k \in 1..Len(m) : m[k].container = "/var/task"}
                aws == {k \in 1..Len(m) : m[k].container = "/root/.aws"}
            IN  /\ Cardinality(task) = 1
                /\ \A k \in task : m[k].host = cwd[i]
                /\ Cardinality(aws) = (IF aws_dir THEN 1 ELSE 0)
                /\ \A k \in aws : m[k].host = <<"~", ".aws">>
                /\ task \cup aws = 1..Len(m)

\* A run on a host without ~/.aws: the working directory is the only mount.
C12_Witness ==
    \E i \in Inv :
        /\ RunIssued(i)
        /\ ~aws_dir
        /\ docker_run_command[i].mounts =
              <<[host |-> cwd[i], container |-> "/var/task"]>>

\* C13: whatever the value of the platform option, absent included, every
\* run request carries the platform linux/amd64 and binds host port 8000 to
\* container port 8000, while every build request and every pull request
\* carries the value of the platform option as it was given.
C13_RunPlatformPinned ==
    \A i \in Inv :
        \A k \in 1..Len(requests[i]) :
            LET r == requests[i][k]
            IN  /\ r.op = "run" =>
                      /\ r.platform = "linux/amd64"
                      /\ docker_run_command[i].platform = "linux/amd64"
                      /\ docker_run_command[i].ports =
                            <<[host |-> 8000, container |-> 8000]>>
                /\ r.op \in {"build", "pull"} => r.platform = platform[i]

\* A build for linux/arm64 followed by the run of the built image.
C13_Witness ==
    \E i \in Inv :
        /\ platform[i] = "linux/arm64"
        /\ \E k \in 1..Len(requests[i]) :
              requests[i][k].op = "build" /\ requests[i][k].platform = "linux/arm64"
        /\ \E k \in 1..Len(requests[i]) :
              requests[i][k].op = "run" /\ requests[i][k].platform = "linux/amd64"

\* The invocation is on the Build path: it looks for no local image and
\* pulls nothing.
OnBuildPathOnly(i) ==
    /\ pc[i] \notin {"pull_list", "pull_check"}
    /\ ~HasOp(i, "list_images") /\ ~HasOp(i, "pull") /\ ~HasOp(i, "prompt")
    /\ repository_name[i] = "None"
    /\ pc[i] \in {"launch", "in_run"} => HasOp(i, "build")
    /\ pc[i] = "done" =>
          \/ HasOp(i, "build")
          \/ outcome[i] \in {"unsupported_version", "unsupported_arch",
                              "engine_hint"}

\* The invocation is on the pull path for a repository:tag: it builds
\* nothing, and what it looks for and pulls is that repository:tag.
OnPullPathOnly(i, repo) ==
    /\ pc[i] \notin {"build_isfile", "build_open", "build_write",
                      "build_client", "build_image"}
    /\ ~HasOp(i, "build") /\ ~HasOp(i, "open_w") /\ ~HasOp(i, "write")
    /\ repository_name[i] = repo
    /\ pc[i] \in {"pull_check", "launch", "in_run", "done"} =>
          HasOp(i, "list_images")
    /\ \A k \in 1..Len(requests[i]) :
          requests[i][k].op = "pull" => requests[i][k].ref = repo
    /\ pc[i] \in {"launch", "in_run"} =>
          docker_image[i].ids[1] \in LocalWithTag(images, repo)

\* The answers given at a prompt for the repository:tag.
Answers(i) ==
    {requests[i][k].ref :
        k \in {n \in 1..Len(requests[i]) : requests[i][n].op = "prompt"}}

\* C14: with --image_source build the invocation takes the Build path and
\* neither looks for a local image nor pulls; with pull it asks once for the
\* repository:tag and takes the pull path with the answer; with pull_default,
\* or with no --image_source at all, it takes the pull path with
\* esc5221/zappadock-layer:python3.9-x86_64 and asks nothing.
C14_ImageSourceSelection ==
    \A i \in Inv :
        /\ argv[i] = "build" => OnBuildPathOnly(i)
        /\ argv[i] = "pull" =>
              /\ CountOp(i, "prompt") = 1
              /\ "Enter repository name and tag" \in echoed[i]
              /\ \A typed \in Answers(i) : OnPullPathOnly(i, typed)
        /\ argv[i] \in {"pull_default", "(omitted)"} =>
              /\ ~HasOp(i, "prompt")
              /\ "Enter repository name and tag" \notin echoed[i]
              /\ OnPullPathOnly(i, "esc5221/zappadock-layer:python3.9-x86_64")

\* A command without --image_source runs the local image of the hardcoded
\* repository:tag, having asked nothing.
C14_Witness ==
    \E i \in Inv :
        /\ argv[i] = "(omitted)"
        /\ pc[i] = "in_run"
        /\ ~HasOp(i, "prompt")
        /\ Ops(requests[i]) = <<"list_containers", "list_images", "run">>

\* C15: the name looked for among the running sessions and the name given
\* to the run request are one function of the basename of the working
\* directory, and directories with different basenames get different names:
\* an invocation attaches only to a session started in a directory with its
\* own basename.
C15_SessionIdentityKey ==
    /\ \A i \in Inv :
          \A k \in 1..Len(requests[i]) :
              requests[i][k].op \in {"attach", "run"} =>
                  requests[i][k].name = ProjectContainerName(cwd[i])
    /\ \A d1, d2 \in AllDirs :
          Basename(d1) # Basename(d2) =>
              /\ RunName(Basename(d1)) # RunName(Basename(d2))
              /\ DetectName(Basename(d1)) # RunName(Basename(d2))
    /\ \A i \in Inv :
          pc[i] = "in_attach" =>
              \A c \in containers :
                  c.name = requests[i][Len(requests[i])].name =>
                      Basename(cwd[c.started_by]) = Basename(cwd[i])

\* Two projects with different basenames have a session each, at once.
C15_Witness ==
    \E i, j \in Inv :
        /\ pc[i] = "in_run" /\ pc[j] = "in_run"
        /\ Basename(cwd[i]) # Basename(cwd[j])
        /\ Cardinality(containers) = 2

\* The invocation handed control to a session and the session has ended.
SessionEnded(i) ==
    pc[i] = "done" /\ outcome[i] \in {"attached", "returned"}

\* C16: when the invocation handed control to a session, by run or by
\* attach, and the session ended with status s, the exit code of the
\* invocation is s; invocations whose sessions end with different statuses
\* end with different exit codes.
C16_ExitStatusMirroring ==
    /\ \A i \in Inv :
          SessionEnded(i) => ExitCode(outcome[i]) = session_status[i][1]
    /\ \A i, j \in Inv :
          /\ SessionEnded(i) /\ SessionEnded(j)
          /\ session_status[i] # session_status[j]
          => ExitCode(outcome[i]) # ExitCode(outcome[j])

\* The requests to the engine among the entries of a log, in order.
RECURSIVE EngineOps(_)
EngineOps(reqs) ==
    IF reqs = <<>> THEN <<>>
    ELSE (IF Head(reqs).op \in {"list_containers", "attach", "build",
                                "list_images", "pull", "run"}
          THEN <<Head(reqs).op>> ELSE <<>>)
         \o EngineOps(Tail(reqs))

IsPrefix(a, b) == Len(a) <= Len(b) /\ a = SubSeq(b, 1, Len(a))

\* C17: the engine requests of an invocation come in the order: the list of
\* running sessions, then the requests that resolve the image (the list of
\* local images and then possibly a pull, or a build), then at most one run;
\* a run is issued only after one image was obtained in the invocation, by
\* a build that succeeded, by reuse of a local image or by a pull, and the
\* run request names the identifier of that image.
C17_EngineCallOrder ==
    \A i \in Inv :
        /\ \E full \in {<<"list_containers", "attach">>,
                         <<"list_containers", "build", "run">>,
                         <<"list_containers", "list_images", "run">>,
                         <<"list_containers", "list_images", "pull", "run">>} :
              IsPrefix(EngineOps(requests[i]), full)
        /\ \A k \in 1..Len(requests[i]) :
              requests[i][k].op = "run" =>
                  /\ docker_image[i].kind = "image"
                  /\ requests[i][k].image = docker_image[i].ids[1]
                  /\ HasOp(i, "build") => requests[i][k].image = "img_built"
                  /\ HasOp(i, "pull") => requests[i][k].image = "img_pulled"
                  /\ HasOp(i, "list_images") /\ ~HasOp(i, "pull") =>
                        requests[i][k].image
                            \in LocalWithTag(images, repository_name[i])

\* A session of the image that the invocation built.
C17_Witness ==
    \E i \in Inv :
        /\ pc[i] = "in_run"
        /\ EngineOps(requests[i]) = <<"list_containers", "build", "run">>
        /\ requests[i][Len(requests[i])].image = "img_built"

\* C18: in a project that starts with no descriptor file, whatever Build
\* invocations run one after another or at once, aborted ones included,
\* every build request reads a descriptor that holds a complete recipe with
\* the base image of a supported version, never an empty file; and an
\* invocation that found the version or the architecture unsupported has
\* ended without a build request.
C18_BuildReadsCompleteDescriptor ==
    \A i \in Inv :
        /\ \A k \in 1..Len(requests[i]) :
              requests[i][k].op = "build" =>
                  LET recipe == requests[i][k].descriptor
                  IN  /\ Len(recipe) = 1
                      /\ recipe[1].version
                            \in {<<3, 6>>, <<3, 7>>, <<3, 8>>, <<3, 9>>}
                      /\ recipe[1].family =
                            IF recipe[1].version \in {<<3, 8>>, <<3, 9>>}
                            THEN "mlupin/docker-lambda:python{}-build"
                            ELSE "lambci/lambda:build-python{}"
        /\ outcome[i] \in {"unsupported_version", "unsupported_arch"} =>
              pc[i] = "done" /\ ~HasOp(i, "build")

\* C19: when the image was resolved to a list of images, the run request
\* names the identifier of the first image of the list; when it was resolved
\* to one image, the run request names the identifier of that image.
C19_ResultNormalization ==
    [][\A i \in Inv :
         (pc[i] = "launch" /\ Len(requests'[i]) = Len(requests[i]) + 1)
         => LET run == requests'[i][Len(requests'[i])]
            IN  /\ run.op = "run"
                /\ docker_image[i].kind = "list" =>
                      run.image = Head(docker_image[i].ids)
                /\ docker_image[i].kind = "image" =>
                      /\ Len(docker_image[i].ids) = 1
                      /\ run.image = docker_image[i].ids[1]
      ]_vars

\* A session of img_tag2, the first image of a list of two: no single image
\* and no other list leads to this run.
C19_Witness ==
    \E i \in Inv :
        /\ pc[i] = "in_run"
        /\ requests[i][Len(requests[i])].op = "run"
        /\ requests[i][Len(requests[i])].image = "img_tag2"
====
